---- MODULE Spec2Model ----
(***************************************************************************)
(* pgbouncer-userlist-generator: the update-decision and atomic-replace    *)
(* protocol of generateUserList and main (reload-aware version), modelled  *)
(* at the granularity of its database and filesystem calls.                *)
(*                                                                         *)
(* A file is a record [exists, data]; data is the byte sequence.  Bytes    *)
(* are small integers that keep the order of the ASCII codes the program   *)
(* writes: newline < space < '!' < '"' < letters.                          *)
(*                                                                         *)
(* Fault model of Spec: every call whose error generateUserList, copyFile, *)
(* calcMd5File or main checks can fail; a failed write leaves a torn       *)
(* prefix.  os.Stat answers truthfully (err == nil iff the path exists).   *)
(***************************************************************************)
EXTENDS Integers, Sequences, FiniteSets, TLC

\* ------------------------------------------------------------------ bounds
MaxRuns == 2
MaxTime == 1

\* ------------------------------------------------------------------- bytes
NL == 0
SP == 1
QUOTE == 3
HashMod == 65521

Null == <<-1>>

Procs == {"p1"}

\* --------------------------------------------------------------- the paths
filePath == "userlist.txt"
reloadTriggerFile == "trigger"

TmpConfigPathLive(path) == path

\* tmpConfigPath := path + ".tmp"
TmpConfigPath(path) == path \o ".tmp"

\* fmt.Sprintf("%s.backup-%d", path, time.Now().UTC().Unix())
BackupPath(path, t) == path \o ".backup-" \o ToString(t)

BackupPaths == {BackupPath(filePath, t) : t \in 0..MaxTime}

Paths == {filePath, TmpConfigPath(filePath), reloadTriggerFile} \cup BackupPaths

Absent == [exists |-> FALSE, data |-> <<>>]

File(d) == [exists |-> TRUE, data |-> d]

\* ---------------------------------------------------------- the role store
\* select distinct id.rolname, id.rolpassword
\* from pg_authid id left join pg_auth_members m on id.oid = m.member
\*                   left join pg_roles r on m.roleid = r.oid
Joined(d) ==
    UNION { IF \E m \in d.members : m.member = id.rolname
            THEN { [id |-> id, rnull |-> FALSE, rname |-> m.roleid] :
                     m \in {x \in d.members : x.member = id.rolname} }
            ELSE { [id |-> id, rnull |-> TRUE, rname |-> <<>>] }
          : id \in d.roles }

\* where (r.rolname is null or not(r.rolname = any($1)))
\*   and id.rolpassword is not null
Where(j, exclude) ==
    /\ (j.rnull \/ ~(j.rname \in exclude))
    /\ j.id.rolpassword # Null

Query(d) ==
    { <<j.id.rolname, j.id.rolpassword>> : j \in {x \in Joined(d) : Where(x, d.exclude)} }

\* ------------------------------------------------------------ the renderer
\* fmt.Sprintf(`"%s" "%s"`, username, password)
Sprintf(username, password) ==
    <<QUOTE>> \o username \o <<QUOTE, SP, QUOTE>> \o password \o <<QUOTE>>

\* Go's string order: bytewise, a proper prefix first.
RECURSIVE StrLess(_, _)
StrLess(a, b) ==
    IF b = <<>> THEN FALSE
    ELSE IF a = <<>> THEN TRUE
    ELSE IF Head(a) # Head(b) THEN Head(a) < Head(b)
    ELSE StrLess(Tail(a), Tail(b))

RECURSIVE Insert(_, _)
Insert(x, s) ==
    IF s = <<>> THEN <<x>>
    ELSE IF StrLess(Head(s), x) THEN <<Head(s)>> \o Insert(x, Tail(s))
    ELSE <<x>> \o s

SortStringsUnsorted(s) == s

RECURSIVE SortStrings(_)
SortStrings(s) ==
    IF s = <<>> THEN <<>> ELSE Insert(Head(s), SortStrings(Tail(s)))

\* strings.Join(lines, "\n")
RECURSIVE Join(_)
Join(ls) ==
    IF ls = <<>> THEN <<>>
    ELSE IF Len(ls) = 1 THEN Head(ls)
    ELSE Head(ls) \o <<NL>> \o Join(Tail(ls))

\* []byte(strings.Join(lines, "\n") + "\n") of the sorted lines
Render(ls) == Join(SortStrings(ls)) \o <<NL>>

\* the orders in which the rows of a result set can arrive
RECURSIVE Perms(_)
Perms(S) ==
    IF S = {} THEN {<<>>}
    ELSE UNION { { <<x>> \o t : t \in Perms(S \ {x}) } : x \in S }

RowLines(rows) == { Sprintf(r[1], r[2]) : r \in rows }

\* ------------------------------------------------------------- fingerprint
\* calcMd5File streams the bytes through the hash; the 128-bit digest is
\* kept at a width that stays injective on the contents of the model.
RECURSIVE HashFold(_, _)
HashFold(h, data) ==
    IF data = <<>> THEN h
    ELSE HashFold((h * 31 + Head(data) + 1) % HashMod, Tail(data))

Md5Sum(data) == HashFold(7, data)

\* a failed write leaves the target with a proper prefix of the data
TornPrefixes(data) ==
    { SubSeq(data, 1, k) : k \in {0, Len(data) \div 2} \ {Len(data)} }

\* ------------------------------------------------------- the role stores
RoleA == [rolname |-> <<4>>, rolpassword |-> <<8>>]
RoleB == [rolname |-> <<5>>, rolpassword |-> <<9>>]
RoleC == [rolname |-> <<6>>, rolpassword |-> <<8>>]
GroupG == [rolname |-> <<7>>, rolpassword |-> Null]
GroupH == [rolname |-> <<7, 7>>, rolpassword |-> Null]

Member(m, g) == [member |-> m.rolname, roleid |-> g.rolname]

DbEmpty == [roles |-> {}, members |-> {}, exclude |-> {GroupG.rolname}]

DbPair == [roles |-> {RoleA, RoleB}, members |-> {}, exclude |-> {}]

\* A in no group, B in the excluded group G, C excluded by name
DbExample ==
    [roles |-> {RoleA, RoleB, RoleC, GroupG},
     members |-> {Member(RoleB, GroupG)},
     exclude |-> {GroupG.rolname, RoleC.rolname}]

\* B in the excluded group G and in the group H that is not excluded
DbTwoGroups ==
    [roles |-> {RoleB, GroupG, GroupH},
     members |-> {Member(RoleB, GroupG), Member(RoleB, GroupH)},
     exclude |-> {GroupG.rolname}]

DbCases == {DbEmpty, DbPair, DbExample, DbTwoGroups}

\* ---------------------------------------------------------------- the state
VARIABLES
    fs,     \* the filesystem: path -> file
    db,     \* the role store the connection string names
    now,    \* time.Now().UTC().Unix()
    runs,   \* invocations of the program started so far
    run,    \* per invocation: position in main/generateUserList and its locals
    prev    \* what the invocation before the current one did

vars == <<fs, db, now, runs, run, prev>>

Terminal == {"done", "failed"}

NoRun ==
    [pc |-> "idle", rows |-> {}, lines |-> <<>>, currentMd5 |-> 0, oldMd5 |-> 0,
     dst |-> "", err |-> FALSE, fault |-> "", events |-> <<>>,
     pre |-> [p \in Paths |-> Absent],
     out |-> "closed",  \* where the file ioutil.WriteFile has open is linked now
     in |-> <<>>]       \* the content of the file copyFile has open for reading

Summary(r) ==
    [ran |-> r.pc \in Terminal, rows |-> r.rows, events |-> r.events, err |-> r.err,
     dst |-> r.dst, preLive |-> r.pre[filePath]]

\* the live artifacts a first state can hold: none, or one an earlier run rendered
InitialLive == {Absent} \cup { File(Render(<<>>)), File(Render(<<Sprintf(RoleA.rolname, RoleA.rolpassword)>>)) }

Init ==
    /\ \E live \in InitialLive :
         fs = [p \in Paths |-> IF p = filePath THEN live ELSE Absent]
    /\ db \in DbCases
    /\ now = 0
    /\ runs = 0
    /\ run = [p \in Procs |-> [NoRun EXCEPT !.pre = fs]]
    /\ prev = Summary(NoRun)

\* one step of invocation p to the local state r
Goto(p, r) ==
    /\ run' = [run EXCEPT ![p] = r]
    /\ UNCHANGED prev

Did(r, e) == [r EXCEPT !.events = Append(@, e)]

\* An open descriptor stays with its file when the file's name changes: after
\* the file at tmpConfigPath is renamed (to = "live") or removed (to =
\* "unlinked"), an invocation that has it open writes to it where it now is.
\* A file that a rename replaces has no name left.
Follow(rs, to) ==
    [q \in DOMAIN rs |->
        IF rs[q].out = "tmp" THEN [rs[q] EXCEPT !.out = to]
        ELSE IF rs[q].out = "live" /\ to = "live" THEN [rs[q] EXCEPT !.out = "unlinked"]
        ELSE rs[q]]

\* write(2) at offset 0 of a file holding old: bytes beyond the written ones stay
Overlay(old, data) ==
    IF Len(old) > Len(data) THEN data \o SubSeq(old, Len(data) + 1, Len(old)) ELSE data

\* the filesystem after an invocation writes data through its descriptor
WriteThrough(f, out, data) ==
    LET path == IF out = "tmp" THEN TmpConfigPath(filePath) ELSE filePath
    IN IF out = "unlinked" THEN f
       ELSE [f EXCEPT ![path] = File(Overlay(f[path].data, data))]

\* an error return before `defer os.Remove(tmpConfigPath)` is registered:
\* generateUserList returns the error and main's log.Fatalf ends the process
FetchErrPcContinue == "open"

FetchErrPc == "failed"

ReturnErr(r, call, to) == [r EXCEPT !.err = TRUE, !.fault = call, !.pc = to]

\* an error return after the defer is registered: the deferred remove runs first
ReturnErrDeferred(r, call) == ReturnErr(r, call, "defer")

\* ------------------------------------------------------------------- main
\* The scheduler starts the program; invocations do not overlap.  The role
\* store is whatever it has become since the last invocation.
Main(p) ==
    /\ runs < MaxRuns
    /\ \A q \in Procs : run[q].pc \in Terminal \cup {"idle"}
    /\ runs' = runs + 1
    /\ \E d \in DbCases : db' = d
    /\ run' = [run EXCEPT ![p] = [NoRun EXCEPT !.pc = "begin", !.pre = fs]]
    /\ prev' = Summary(run[p])
    /\ UNCHANGED <<fs, now>>

\* ------------------------------------------------------- generateUserList
\* tx, errTx := db.BeginTx(ctx, ReadOnly)
BeginTx(p) ==
    /\ run[p].pc = "begin"
    /\ \/ Goto(p, [run[p] EXCEPT !.pc = "query"])
       \/ Goto(p, ReturnErr(run[p], "BeginTx", FetchErrPc))
    /\ UNCHANGED <<fs, db, now, runs>>

\* rows, errRows := tx.QueryContext(ctx, ...): the snapshot the rows come from
QueryContext(p) ==
    /\ run[p].pc = "query"
    /\ \/ Goto(p, [run[p] EXCEPT !.pc = "rows", !.rows = Query(db)])
       \/ Goto(p, ReturnErr(run[p], "QueryContext", FetchErrPc))
    /\ UNCHANGED <<fs, db, now, runs>>

\* for rows.Next() { rows.Scan; lines = append(lines, Sprintf) }; rows.Err()
\* A failure (scan error, iteration error, the context's deadline) can come
\* after any number of rows were appended.
ScanRows(p) ==
    /\ run[p].pc = "rows"
    /\ \/ \E ls \in Perms(RowLines(run[p].rows)) :
            Goto(p, [run[p] EXCEPT !.pc = "open", !.lines = ls])
       \/ \E ls \in Perms(RowLines(run[p].rows)), k \in 0..Cardinality(run[p].rows) :
            Goto(p, ReturnErr([run[p] EXCEPT !.lines = SubSeq(ls, 1, k)],
                              "rows", FetchErrPc))
    /\ UNCHANGED <<fs, db, now, runs>>

\* sort.Strings(lines); ioutil.WriteFile(tmpConfigPath, ...): open with
\* O_WRONLY|O_CREATE|O_TRUNC
WriteFileOpen(p) ==
    /\ run[p].pc = "open"
    /\ \/ /\ fs' = [fs EXCEPT ![TmpConfigPath(filePath)] = File(<<>>)]
          /\ Goto(p, Did([run[p] EXCEPT !.pc = "write", !.out = "tmp"], "create"))
       \/ /\ Goto(p, ReturnErr(run[p], "WriteFile", "failed"))
          /\ UNCHANGED fs
    /\ UNCHANGED <<db, now, runs>>

\* ioutil.WriteFile: write and close; on error the file stays as far as written
WriteFileData(p) ==
    /\ run[p].pc = "write"
    /\ LET data == Render(run[p].lines)
           r == [run[p] EXCEPT !.out = "closed"]
       IN \/ /\ fs' = WriteThrough(fs, run[p].out, data)
             /\ Goto(p, Did([r EXCEPT !.pc = "stat"], "tmp"))
          \/ \E t \in TornPrefixes(data) :
             /\ fs' = WriteThrough(fs, run[p].out, t)
             /\ Goto(p, ReturnErr(r, "WriteFile", "failed"))
    /\ UNCHANGED <<db, now, runs>>

\* defer os.Remove(tmpConfigPath); if _, err := os.Stat(path); err == nil {
Stat(p) ==
    /\ run[p].pc = "stat"
    /\ \/ /\ fs[filePath].exists
          /\ Goto(p, [run[p] EXCEPT !.pc = "md5tmp"])
       \/ /\ ~fs[filePath].exists
          /\ Goto(p, [run[p] EXCEPT !.pc = "trigger"])
    /\ UNCHANGED <<fs, db, now, runs>>

\* currentMd5, errCurrentMd5 := calcMd5File(tmpConfigPath)
CalcMd5Tmp(p) ==
    /\ run[p].pc = "md5tmp"
    /\ LET tmp == TmpConfigPath(filePath)
       IN \/ /\ fs[tmp].exists
             /\ Goto(p, [run[p] EXCEPT !.pc = "md5old",
                                       !.currentMd5 = Md5Sum(fs[tmp].data)])
          \/ Goto(p, ReturnErrDeferred(run[p], "calcMd5File(tmp)"))
    /\ UNCHANGED <<fs, db, now, runs>>

UnchangedNever(currentMd5, oldMd5) == FALSE

\* if currentMd5 == oldMd5
Unchanged(currentMd5, oldMd5) == currentMd5 = oldMd5

\* oldMd5, errOldMd5 := calcMd5File(path); if currentMd5 == oldMd5 { return nil }
CalcMd5Old(p) ==
    /\ run[p].pc = "md5old"
    /\ \/ /\ fs[filePath].exists
          /\ LET old == Md5Sum(fs[filePath].data)
                 r == [run[p] EXCEPT !.oldMd5 = old]
             IN IF Unchanged(run[p].currentMd5, old)
                THEN Goto(p, Did([r EXCEPT !.pc = "defer"], "nochange"))
                ELSE Goto(p, [r EXCEPT !.pc = "copyOpen"])
       \/ Goto(p, ReturnErrDeferred(run[p], "calcMd5File(path)"))
    /\ UNCHANGED <<fs, db, now, runs>>

\* --------------------------------------------------------------- copyFile
CopySrcTmp(path) == TmpConfigPath(path)

\* copyFile(path, ...): the file that is backed up
CopySrc(path) == path

\* fmt.Sprintf("%s.backup-%d", path, time.Now().UTC().Unix()); in, errOpen := os.Open(src)
\* The clock has not gone back since it was last read.
CopyOpen(p) ==
    /\ run[p].pc = "copyOpen"
    /\ \E t \in now..MaxTime :
         /\ now' = t
         /\ \/ /\ fs[CopySrc(filePath)].exists
               /\ Goto(p, [run[p] EXCEPT !.pc = "copyCreate",
                                         !.dst = BackupPath(filePath, t),
                                         !.in = fs[CopySrc(filePath)].data])
            \/ Goto(p, ReturnErrDeferred([run[p] EXCEPT !.dst = BackupPath(filePath, t)],
                                         "copyFile:Open"))
    /\ UNCHANGED <<fs, db, runs>>

\* out, errCreate := os.Create(dst): creates dst or truncates the one there
CopyCreate(p) ==
    /\ run[p].pc = "copyCreate"
    /\ \/ /\ fs' = [fs EXCEPT ![run[p].dst] = File(<<>>)]
          /\ Goto(p, Did([run[p] EXCEPT !.pc = "copyData"], "create-backup"))
       \/ /\ Goto(p, ReturnErrDeferred(run[p], "copyFile:Create"))
          /\ UNCHANGED fs
    /\ UNCHANGED <<db, now, runs>>

\* _, errCopy := io.Copy(out, in)
CopyData(p) ==
    /\ run[p].pc = "copyData"
    /\ LET data == run[p].in
           old == fs[run[p].dst].data
       IN \/ /\ fs' = [fs EXCEPT ![run[p].dst] = File(Overlay(old, data))]
             /\ Goto(p, [run[p] EXCEPT !.pc = "copyClose"])
          \/ \E t \in TornPrefixes(data) :
             /\ fs' = [fs EXCEPT ![run[p].dst] = File(Overlay(old, t))]
             /\ Goto(p, ReturnErrDeferred(run[p], "copyFile:Copy"))
    /\ UNCHANGED <<db, now, runs>>

\* return out.Close()
CopyClose(p) ==
    /\ run[p].pc = "copyClose"
    /\ \/ Goto(p, Did([run[p] EXCEPT !.pc = "trigger"], "backup"))
       \/ Goto(p, ReturnErrDeferred(run[p], "copyFile:Close"))
    /\ UNCHANGED <<fs, db, now, runs>>

\* ------------------------------------------------------ trigger and rename
WriteTriggerFileUnchecked(p) ==
    /\ run[p].pc = "trigger"
    /\ \/ /\ fs' = [fs EXCEPT ![reloadTriggerFile] = File(<<>>)]
          /\ Goto(p, Did([run[p] EXCEPT !.pc = "rename"], "trigger"))
       \/ /\ Goto(p, [run[p] EXCEPT !.pc = "rename"])
          /\ UNCHANGED fs
    /\ UNCHANGED <<db, now, runs>>

\* if err := writeTriggerFile(); err != nil { return err }
\* os.WriteFile(*reloadTriggerFile, nil, 0600)
WriteTriggerFile(p) ==
    /\ run[p].pc = "trigger"
    /\ \/ /\ fs' = [fs EXCEPT ![reloadTriggerFile] = File(<<>>)]
          /\ Goto(p, Did([run[p] EXCEPT !.pc = "rename"], "trigger"))
       \/ /\ Goto(p, ReturnErrDeferred(run[p], "writeTriggerFile"))
          /\ UNCHANGED fs
    /\ UNCHANGED <<db, now, runs>>

\* return os.Rename(tmpConfigPath, path): all or nothing
Rename(p) ==
    /\ run[p].pc = "rename"
    /\ LET tmp == TmpConfigPath(filePath)
       IN \/ /\ fs[tmp].exists
             /\ fs' = [q \in Paths |->
                         IF q = filePath THEN fs[tmp]
                         ELSE IF q = tmp THEN Absent
                         ELSE fs[q]]
             /\ run' = [Follow(run, "live") EXCEPT
                           ![p] = Did([run[p] EXCEPT !.pc = "defer"], "rename")]
             /\ UNCHANGED prev
          \/ /\ Goto(p, ReturnErrDeferred(run[p], "Rename"))
             /\ UNCHANGED fs
    /\ UNCHANGED <<db, now, runs>>

RemoveNothing(f, path) == f

\* os.Remove(path); its error is dropped
Remove(f, path) == [f EXCEPT ![path] = Absent]

\* defer os.Remove(tmpConfigPath) runs on every return after line 87; then
\* main: log.Fatalf on an error, checkTriggerFileExists otherwise
DeferredRemove(p) ==
    /\ run[p].pc = "defer"
    /\ fs' = Remove(fs, TmpConfigPath(filePath))
    /\ run' = [(IF fs'[TmpConfigPath(filePath)].exists THEN run ELSE Follow(run, "unlinked"))
                  EXCEPT ![p] = [run[p] EXCEPT !.pc = IF run[p].err THEN "failed" ELSE "check"]]
    /\ UNCHANGED prev
    /\ UNCHANGED <<db, now, runs>>

\* --------------------------------------------------------------- the reload
CheckTriggerFileNever(p) ==
    /\ run[p].pc = "check"
    /\ Goto(p, [run[p] EXCEPT !.pc = "done"])
    /\ UNCHANGED <<fs, db, now, runs>>

\* if checkTriggerFileExists() { ... }: _, err := os.Stat(trigger); err == nil
CheckTriggerFileExists(p) ==
    /\ run[p].pc = "check"
    /\ \/ /\ fs[reloadTriggerFile].exists
          /\ Goto(p, [run[p] EXCEPT !.pc = "reload"])
       \/ /\ ~fs[reloadTriggerFile].exists
          /\ Goto(p, [run[p] EXCEPT !.pc = "done"])
    /\ UNCHANGED <<fs, db, now, runs>>

OnReloadErrorRollback(f, r) == [f EXCEPT ![filePath] = r.pre[filePath]]

\* log.Fatalf("reload command: %s\n", err): the process exits, no file is touched
OnReloadError(f, r) == f

\* exec.Command("/bin/bash", "-ec", *reloadCommand).Run(); log.Fatalf on error
RunReloadCommand(p) ==
    /\ run[p].pc = "reload"
    /\ \/ /\ Goto(p, Did([run[p] EXCEPT !.pc = "done"], "reload"))
          /\ UNCHANGED fs
       \/ /\ Goto(p, Did(ReturnErr(run[p], "runReloadCommand", "failed"), "reload"))
          /\ fs' = OnReloadError(fs, run[p])
    /\ UNCHANGED <<db, now, runs>>

\* ------------------------------------------------------- the specification
Next ==
    \E p \in Procs :
         \/ Main(p)
         \/ BeginTx(p)
         \/ QueryContext(p)
         \/ ScanRows(p)
         \/ WriteFileOpen(p)
         \/ WriteFileData(p)
         \/ Stat(p)
         \/ CalcMd5Tmp(p)
         \/ CalcMd5Old(p)
         \/ CopyOpen(p)
         \/ CopyCreate(p)
         \/ CopyData(p)
         \/ CopyClose(p)
         \/ WriteTriggerFile(p)
         \/ Rename(p)
         \/ DeferredRemove(p)
         \/ CheckTriggerFileExists(p)
         \/ RunReloadCommand(p)

Spec == Init /\ [][Next]_vars

\* ------------------------------------------------------------- vocabulary
Has(events, e) == \E i \in 1..Len(events) : events[i] = e

Count(events, e) == Cardinality({i \in 1..Len(events) : events[i] = e})

Before(events, a, b) ==
    \E i, j \in 1..Len(events) : i < j /\ events[i] = a /\ events[j] = b

Live == fs[filePath]

Tmp == fs[TmpConfigPath(filePath)]

Marker == fs[reloadTriggerFile]

\* the artifact the run rendered from the rows it scanned
Rendered(r) == File(Render(r.lines))

FetchFaults == {"BeginTx", "QueryContext", "rows"}

CopyFaults == {"copyFile:Open", "copyFile:Create", "copyFile:Copy", "copyFile:Close"}

\* the failures between the written temporary file and the completed rename
PublishFaults ==
    {"calcMd5File(tmp)", "calcMd5File(path)", "writeTriggerFile", "Rename"} \cup CopyFaults

C2_AtomicPublish ==
    /\ [](\A p \in Procs :
            \/ Live = run[p].pre[filePath]
            \/ Has(run[p].events, "rename") /\ Live = Rendered(run[p]))
    /\ [][fs[filePath].exists => fs'[filePath].exists]_vars

\* a run has replaced an existing live artifact by a different one
C2_Witness ==
    \E p \in Procs :
        /\ Has(run[p].events, "rename")
        /\ run[p].pre[filePath].exists
        /\ Live # run[p].pre[filePath]
        /\ Len(Live.data) > 1

C4_ReloadOnlyOnChange ==
    \A p \in Procs :
        LET r == run[p] IN
        /\ Has(r.events, "reload")
           => Has(r.events, "rename") /\ Live # r.pre[filePath]
        /\ Has(r.events, "nochange") => ~Has(r.events, "reload")

\* C5: the side effects of a run come in the order backup, rename, marker:
\* whenever a run has created the marker its rename has already succeeded,
\* and a run whose rename fails has created no marker.
C5_MarkerAfterPublish ==
    \A p \in Procs :
        LET r == run[p] IN
        /\ Has(r.events, "trigger") => Before(r.events, "rename", "trigger")
        /\ r.fault = "Rename" => ~Has(r.events, "trigger")

\* two invocations in succession, both ending successfully, that scanned the
\* same credential set
TwoRuns(p) ==
    /\ prev.ran /\ ~prev.err
    /\ run[p].pc = "done" /\ ~run[p].err
    /\ prev.rows = run[p].rows

Backups(events) == Count(events, "create-backup")

NotExcluded(d) ==
    { <<id.rolname, id.rolpassword>> :
        id \in { x \in d.roles :
                   /\ x.rolpassword # Null
                   /\ x.rolname \notin d.exclude
                   /\ ~\E m \in d.members :
                         m.member = x.rolname /\ m.roleid \in d.exclude } }

\* C7: the fetched set is exactly the roles with a non-null secret that are
\* neither named in the exclusion list nor a member of an excluded group.
C7_ExclusionCorrectness ==
    \A p \in Procs :
        run[p].pc \in {"rows", "open", "write", "stat"} => run[p].rows = NotExcluded(db)

\* C8: a failure of the fetch stage (transaction, query, row decoding, row
\* iteration, the timeout during the round trip) fails the run and leaves the
\* temporary file, the live artifact, the backups and the marker unchanged,
\* and no reload action is invoked.
C8_FetchFailureNoMutation ==
    \A p \in Procs :
        LET r == run[p] IN
        r.fault \in FetchFaults
        => /\ r.pc = "failed" /\ r.err
           /\ fs = r.pre
           /\ r.events = <<>>

\* the row loop failed in a directory that holds a live artifact
C8_Witness ==
    \E p \in Procs :
        /\ run[p].fault = "rows"
        /\ run[p].pc = "failed"
        /\ Len(run[p].lines) = 1
        /\ Live.exists

\* C9: a failure after the temporary file is written and before the rename
\* completes (fingerprint read, backup copy, marker write, rename) leaves the
\* live artifact byte-identical to its pre-run content, discards the new
\* content and fails the run.
C9_FailureKeepsLive ==
    \A p \in Procs :
        LET r == run[p] IN
        r.fault \in PublishFaults
        => /\ Live = r.pre[filePath]
           /\ ~Has(r.events, "rename")
           /\ r.err
           /\ r.pc \in {"defer", "failed"}
           /\ r.pc = "failed" => ~Tmp.exists

\* the rename failed after the backup of an existing artifact was taken
C9_Witness ==
    \E p \in Procs :
        /\ run[p].fault = "Rename"
        /\ run[p].pc = "failed"
        /\ Has(run[p].events, "backup")
        /\ Live.exists
        /\ Live # Rendered(run[p])

\* C10: the backup file that an earlier content-changing run has written is
\* not modified, truncated or removed by a later run, also when both backups
\* are taken within the same second.
C10_BackupsAppendOnly ==
    \A p \in Procs :
        (prev.ran /\ Has(prev.events, "backup") /\ Has(prev.events, "rename"))
        => fs[prev.dst] = run[p].pre[prev.dst]

\* ------------------------------------------------- the renderer on its own
\* principals "a", "a!", "b" and three secrets: every credential set over them
Principals == {<<4>>, <<4, 2>>, <<5>>}

Secrets == {<<8>>, <<9>>, <<8, 9>>}

CredentialSets ==
    { rows \in SUBSET (Principals \X Secrets) :
        \A x, y \in rows : x[1] = y[1] => x = y }

\* the query has returned some credential set; the row loop comes next
QueryAny(p) ==
    /\ run[p].pc = "idle"
    /\ \E rows \in CredentialSets :
         Goto(p, [run[p] EXCEPT !.pc = "rows", !.rows = rows])
    /\ UNCHANGED <<fs, db, now, runs>>

NextRender ==
    \E p \in Procs :
         \/ QueryAny(p)
         \/ ScanRows(p)
         \/ WriteFileOpen(p)
         \/ WriteFileData(p)

SpecRender == Init /\ [][NextRender]_vars

Ascending(ls) == \A i, j \in 1..Len(ls) : i < j => StrLess(ls[i], ls[j])

\* the lines in ascending order of their full text, each followed by a newline;
\* the artifact of no line is one newline
RECURSIVE Terminated(_)
Terminated(ls) ==
    IF ls = <<>> THEN <<>> ELSE Head(ls) \o <<NL>> \o Terminated(Tail(ls))

Canonical(S) ==
    IF S = {} THEN <<NL>>
    ELSE Terminated(CHOOSE ls \in Perms(S) : Ascending(ls))

\* C11: whatever the order in which the rows arrive, the rendered artifact is
\* the lines "principal" "secret" sorted ascending by their full text, joined
\* by newlines and ended by exactly one newline; no row renders to one newline.
C11_RenderCanonical ==
    \A p \in Procs :
        (run[p].pc = "stat" /\ Has(run[p].events, "tmp"))
        => /\ Tmp.exists
           /\ Tmp.data = Canonical(RowLines(run[p].rows))

\* three rows, "a" and "a!" among them, that did not arrive in sorted order
C11_Witness ==
    \E p \in Procs :
        /\ run[p].pc = "stat"
        /\ Cardinality(run[p].rows) = 3
        /\ ~Ascending(run[p].lines)
        /\ Tmp.data = Canonical(RowLines(run[p].rows))

\* C12: when the reload action fails after a publish the run ends failed,
\* and the newly published live artifact and the backup taken in that run
\* stay in place: nothing is rolled back.
C12_ReloadFailureKeepsPublish ==
    \A p \in Procs :
        LET r == run[p] IN
        r.fault = "runReloadCommand"
        => /\ r.pc = "failed" /\ r.err
           /\ Has(r.events, "rename")
              => /\ Live = Rendered(r)
                 /\ r.pre[filePath].exists => fs[r.dst] = r.pre[filePath]

\* the reload action failed in a run that had replaced a backed-up artifact
C12_Witness ==
    \E p \in Procs :
        /\ run[p].fault = "runReloadCommand"
        /\ Has(run[p].events, "rename")
        /\ Has(run[p].events, "backup")
        /\ Live # run[p].pre[filePath]

\* C13: on every exit path of a run that has written the temporary file
\* (unchanged, fingerprint error, backup error, marker-write error, rename
\* error, publish) the temporary path does not exist when the run ends.
C13_TmpCleanup ==
    \A p \in Procs :
        (run[p].pc \in Terminal /\ Has(run[p].events, "tmp")) => ~Tmp.exists

\* a run that had written the temporary file ended on a failed backup copy
C13_Witness ==
    \E p \in Procs :
        /\ run[p].pc = "failed"
        /\ Has(run[p].events, "tmp")
        /\ run[p].fault = "copyFile:Copy"

\* C14: a run that has published ends with exactly one invocation of the
\* reload action: the marker exists when generateUserList returns, and the
\* action is invoked after the rename, never before it.
C14_PublishThenReload ==
    \A p \in Procs :
        LET r == run[p] IN
        /\ Count(r.events, "reload") <= 1
        /\ Has(r.events, "rename")
           => /\ r.pc = "check" => Marker.exists
              /\ r.pc \in Terminal => Count(r.events, "reload") = 1
              /\ ~Before(r.events, "reload", "rename")

\* a run has published and then invoked the reload action
C14_Witness ==
    \E p \in Procs :
        /\ run[p].pc = "done"
        /\ Before(run[p].events, "rename", "reload")

\* C17: the live artifact is replaced only after the marker was written in
\* that run: a failed marker write fails the run with the live artifact
\* unchanged and the temporary file removed, and whenever a run has replaced
\* the live artifact the marker exists.
C17_MarkerBeforePublish ==
    \A p \in Procs :
        LET r == run[p] IN
        /\ Has(r.events, "rename")
           => Before(r.events, "trigger", "rename") /\ Marker.exists
        /\ r.fault = "writeTriggerFile"
           => /\ Live = r.pre[filePath]
              /\ ~Has(r.events, "rename")
              /\ r.err
              /\ r.pc = "failed" => ~Tmp.exists

\* the marker write failed after the backup of an existing artifact
C17_Witness ==
    \E p \in Procs :
        /\ run[p].fault = "writeTriggerFile"
        /\ run[p].pc = "failed"
        /\ Has(run[p].events, "backup")
        /\ Live.exists

\* ------------------------------------------- a probe that reports an error
\* if _, err := os.Stat(path); err == nil { ... }: os.Stat fails with an error
\* other than "does not exist" (EACCES, EIO, ...) although the path exists;
\* the block is skipped as for a missing file
StatErr(p) ==
    /\ run[p].pc = "stat"
    /\ fs[filePath].exists
    /\ Goto(p, [run[p] EXCEPT !.pc = "trigger"])
    /\ UNCHANGED <<fs, db, now, runs>>

NextStatErr ==
    \/ Next
    \/ \E p \in Procs : StatErr(p)

SpecStatErr == Init /\ [][NextStatErr]_vars

\* C15: the first-run path (publish with no fingerprint comparison and no
\* backup) is taken only when no live artifact exists; a run that finds a live
\* artifact in place compares and backs it up before replacing it, also when
\* probing the live path reports an error other than "does not exist".
C15_FirstRunOnlyWhenAbsent ==
    \A p \in Procs :
        LET r == run[p] IN
        (r.pre[filePath].exists /\ (r.pc \in {"trigger", "rename"} \/ Has(r.events, "rename")))
        => /\ r.oldMd5 = Md5Sum(r.pre[filePath].data)
           /\ Has(r.events, "backup")
           /\ fs[r.dst] = r.pre[filePath]

\* ------------------------------------ generateUserList of cmd/main.go
\* The earlier generateUserList, run on the filesystem f0 with the scanned
\* lines ls, the clock at t, and the failure inj injected:
\* inj.call names the failing call ("" for none), inj.created tells whether
\* ioutil.WriteFile had opened the temporary file, inj.torn is what a failed
\* write left behind.  The result is the filesystem and the returned error.
OldReturn(f, err) == [fs |-> f, err |-> err]

\* defer os.Remove(tmpConfigPath) on the returns after cmd/main.go:79
OldReturnDeferred(f, err) ==
    OldReturn([f EXCEPT ![TmpConfigPath(filePath)] = Absent], err)

\* return os.Rename(tmpConfigPath, path)
OldRename(f, inj) ==
    LET tmp == TmpConfigPath(filePath) IN
    IF inj.call = "Rename" \/ ~f[tmp].exists
    THEN OldReturnDeferred(f, TRUE)
    ELSE OldReturnDeferred([q \in Paths |->
                              IF q = filePath THEN f[tmp]
                              ELSE IF q = tmp THEN Absent
                              ELSE f[q]], FALSE)

\* copyFile(path, path.backup-<t>) and what follows it
OldCopyFile(f, t, inj) ==
    LET dst == BackupPath(filePath, t) IN
    IF inj.call \in {"copyFile:Open", "copyFile:Create"} \/ ~f[filePath].exists
    THEN OldReturnDeferred(f, TRUE)
    ELSE IF inj.call = "copyFile:Copy"
    THEN OldReturnDeferred([f EXCEPT ![dst] = File(inj.torn)], TRUE)
    ELSE IF inj.call = "copyFile:Close"
    THEN OldReturnDeferred([f EXCEPT ![dst] = File(f[filePath].data)], TRUE)
    ELSE OldRename([f EXCEPT ![dst] = File(f[filePath].data)], inj)

\* if _, err := os.Stat(path); err == nil { compare, back up }; rename
OldCompare(f, t, inj) ==
    LET tmp == TmpConfigPath(filePath) IN
    IF ~f[filePath].exists THEN OldRename(f, inj)
    ELSE IF inj.call \in {"calcMd5File(tmp)", "calcMd5File(path)"}
    THEN OldReturnDeferred(f, TRUE)
    ELSE IF Md5Sum(f[tmp].data) = Md5Sum(f[filePath].data)
    THEN OldReturnDeferred(f, FALSE)
    ELSE OldCopyFile(f, t, inj)

OldGenerateUserList(f0, ls, t, inj) ==
    LET tmp == TmpConfigPath(filePath) IN
    IF inj.call \in {"BeginTx", "QueryContext", "rows"} THEN OldReturn(f0, TRUE)
    ELSE IF inj.call = "WriteFile" /\ ~inj.created THEN OldReturn(f0, TRUE)
    ELSE IF inj.call = "WriteFile"
    THEN OldReturn([f0 EXCEPT ![tmp] = File(inj.torn)], TRUE)
    ELSE OldCompare([f0 EXCEPT ![tmp] = File(Render(ls))], t, inj)

\* the failure injected into run r, read off what the run did
Injected(r) ==
    [call |-> IF r.fault = "runReloadCommand" THEN "" ELSE r.fault,
     created |-> Has(r.events, "create"),
     torn |-> IF r.fault = "WriteFile" THEN Tmp.data
              ELSE IF r.fault = "copyFile:Copy" THEN fs[r.dst].data
              ELSE <<>>]

\* generateUserList has returned to main
Returned(r) == r.pc \in {"check", "reload", "done", "failed"}

ArtifactPaths == Paths \ {reloadTriggerFile}

\* C18: for every initial filesystem, credential set and injected failure in
\* which the marker write succeeds, the reload-aware generateUserList and the
\* earlier one end with the same live, backup and temporary files and the
\* same success or failure.
C18_RefinesOld ==
    \A p \in Procs :
        LET r == run[p]
            old == OldGenerateUserList(r.pre, r.lines, now, Injected(r))
        IN (Returned(r) /\ r.fault # "writeTriggerFile")
           => /\ \A q \in ArtifactPaths : fs[q] = old.fs[q]
              /\ (r.err /\ r.fault # "runReloadCommand") = old.err

\* both versions have backed up and replaced an existing artifact
C18_Witness ==
    \E p \in Procs :
        /\ run[p].pc = "done"
        /\ Has(run[p].events, "backup")
        /\ Has(run[p].events, "rename")
        /\ ~OldGenerateUserList(run[p].pre, run[p].lines, now, Injected(run[p])).err
        /\ Live # run[p].pre[filePath]

\* ------------------------------------------- invocations that may overlap
\* Nothing in the program keeps a second invocation from starting while one
\* is running: there is no lock, and both use tmpConfigPath = path + ".tmp".
Invocations == {"p1", "p2"}

Active(r) == r.pc \notin Terminal \cup {"idle"}

\* the role stores the overlapping invocations read
OverlapDbCases == {DbEmpty, DbTwoGroups}

InitOverlap ==
    /\ \E live \in InitialLive :
         fs = [p \in Paths |-> IF p = filePath THEN live ELSE Absent]
    /\ db = DbEmpty
    /\ now = 0
    /\ runs = 0
    /\ run = [p \in Invocations |-> [NoRun EXCEPT !.pre = fs]]
    /\ prev = Summary(NoRun)

\* An invocation starts, whether or not another is running; "overlap" is
\* noted in the log of each invocation that shares some of its time.
MainOverlap(p) ==
    /\ run[p].pc = "idle"
    /\ runs' = runs + 1
    /\ \E d \in OverlapDbCases : db' = d
    /\ LET shared == \E q \in Invocations : Active(run[q])
       IN run' = [q \in Invocations |->
                    IF q = p
                    THEN [NoRun EXCEPT !.pc = "begin", !.pre = fs,
                                       !.events = IF shared THEN <<"overlap">> ELSE <<>>]
                    ELSE IF Active(run[q]) THEN Did(run[q], "overlap")
                    ELSE run[q]]
    /\ UNCHANGED <<fs, now, prev>>

NextOverlap ==
    \E p \in Invocations :
         \/ MainOverlap(p)
         \/ BeginTx(p)
         \/ QueryContext(p)
         \/ ScanRows(p)
         \/ WriteFileOpen(p)
         \/ WriteFileData(p)
         \/ Stat(p)
         \/ CalcMd5Tmp(p)
         \/ CalcMd5Old(p)
         \/ CopyOpen(p)
         \/ CopyCreate(p)
         \/ CopyData(p)
         \/ CopyClose(p)
         \/ WriteTriggerFile(p)
         \/ Rename(p)
         \/ DeferredRemove(p)
         \/ CheckTriggerFileExists(p)
         \/ RunReloadCommand(p)

SpecOverlap == InitOverlap /\ [][NextOverlap]_vars

\* the live path holds what was there before a run, or what a run rendered
Intact ==
    \/ \E q \in Invocations : Live = run[q].pre[filePath]
    \/ \E q \in Invocations : Has(run[q].events, "tmp") /\ Live = Rendered(run[q])

\* invocation p completes its rename in this step
Publishes(p) == run[p].pc = "rename" /\ Has(run'[p].events, "rename")

NoOverlap == \A q \in Invocations : ~Has(run[q].events, "overlap")

\* C16 as stated: for two runs whose steps interleave, the live path always
\* holds the prior content or a complete artifact one of the runs rendered,
\* and a run that publishes publishes exactly what it rendered.
C16_InterleavedPublishAsStated ==
    /\ []Intact
    /\ [][\A p \in Invocations : Publishes(p) => Live' = Rendered(run[p])]_vars

\* C16: for two runs against the same live path whose steps do not
\* interleave, the live path always holds the prior content or a complete
\* artifact one of the runs rendered, and a run that publishes publishes
\* exactly what it rendered.
C16_SerializedPublish ==
    /\ [](NoOverlap => Intact)
    /\ [][\A p \in Invocations :
            (NoOverlap /\ Publishes(p)) => Live' = Rendered(run[p])]_vars

\* two invocations, one after the other, have each published their own artifact
C16_Witness ==
    /\ NoOverlap
    /\ \E p, q \in Invocations :
         /\ p # q
         /\ run[p].pc = "done" /\ Has(run[p].events, "rename")
         /\ run[q].pc = "done" /\ Has(run[q].events, "rename")
         /\ run[q].pre[filePath] = Rendered(run[p])
         /\ Live = Rendered(run[q])
         /\ Live # Rendered(run[p])

====
